---- MODULE Spec2Model ----
(***************************************************************************)
(* Order lifecycle of the order-management backend: the handlers of        *)
(* src/routes/orders.js over the Order collection of src/models/Order.js,  *)
(* behind the role check of src/middleware/auth.js and the request schemas *)
(* of src/middleware/validation.js.                                        *)
(*                                                                         *)
(* Time is counted in hours.  Strings that the code formats or compares    *)
(* (order_number) are sequences of character codes.  Fields of an order    *)
(* that no handler reads (notes, location, delivery_due, createdBy, brand, *)
(* format, unit_price, unit_of_measure) are not carried.                   *)
(***************************************************************************)
EXTENDS Integers, Sequences, FiniteSets, TLC

VARIABLES
    orders,     \* the Order collection, in insertion order; the index is the _id
    now,        \* the server clock (new Date()), in hours
    res,        \* the response of the last request served
    served,     \* number of requests served so far
    calls,      \* POST / handlers suspended at an await, by connection
    dispatch,   \* the notification dispatch of the last request answered
    users,      \* the User collection, in insertion order
    configs,    \* the NotificationConfig collection, in insertion order
    tasks,      \* account and notification handlers suspended at an await
    reply       \* the answer of the last account or notification request

vars == <<orders, now, res, served, calls, dispatch, users, configs, tasks, reply>>

---------------------------------------------------------------------------
(* Bounds of the model *)

MaxRequests == 4      \* steps (requests and clock advances) of one behaviour
MaxOrders   == 2      \* orders in the collection
MaxQty      == 3      \* quantity a line may reach through merges
MaxNow      == 168    \* last value of the clock

---------------------------------------------------------------------------
(* Users, catalog and the values requests are drawn from *)

Role(u) == CASE u = "vend"  -> "vendedor"
             [] u = "fact"  -> "facturador"
             [] u = "admin" -> "admin"

Customers == {"c1", "c2"}

\* Product collection: _id |-> isActive.  "p0" is an id that is in no document.
Catalog == [p1 |-> TRUE, p2 |-> TRUE, p3 |-> FALSE]

Statuses == {"pendiente", "compra", "facturado", "nulo"}

OpenStatuses == {"pendiente", "compra"}

DefaultStatus == "pendiente"

Absent == "undefined"          \* a field the request body does not carry

NoUser == "none"               \* updatedBy of an order never updated

Range(s) == {s[i] : i \in DOMAIN s}

---------------------------------------------------------------------------
(* order_number: `OC-${String(count + 1).padStart(6, '0')}` *)

RECURSIVE NumToString(_)
NumToString(n) ==
    IF n < 10 THEN <<48 + n>>
    ELSE NumToString(n \div 10) \o <<48 + (n % 10)>>

RECURSIVE PadStart(_, _, _)
PadStart(s, len, ch) ==
    IF Len(s) >= len THEN s ELSE PadStart(<<ch>> \o s, len, ch)

GenerateOrderNumber(count) ==
    <<79, 67, 45>> \o PadStart(NumToString(count + 1), 6, 48)

\* pre('save'): a new document without order_number gets the generated one
PreSave(doc, count) ==
    IF doc.order_number = <<>>
    THEN [doc EXCEPT !.order_number = GenerateOrderNumber(count)]
    ELSE doc

---------------------------------------------------------------------------
(* Middleware *)

AuthorizeAnyRole(roles, actor) == Role(actor) \in {"vendedor", "facturador", "admin"}

\* authorize(...roles)
Authorize(roles, actor) == Role(actor) \in roles

\* schemas.order: items 1..20, quantity >= 0.1 (whole quantities here),
\* order_number at most 50 characters
ValidOrderBody(items, order_number) ==
    /\ Len(items) >= 1
    /\ Len(items) <= 20
    /\ \A i \in DOMAIN items : items[i].quantity >= 1
    /\ Len(order_number) <= 50

ValidStatusBodyForward(status) == status \in {"compra", "facturado", "nulo"}

\* schemas.orderStatus
ValidStatusBody(status) == status \in Statuses

---------------------------------------------------------------------------
(* The last exchange: the request served and its response *)

NoRequest ==
    [actor |-> "none", customer |-> Absent, items |-> <<>>,
     status |-> Absent, order_number |-> <<>>]

Request(actor, customer, items, status, order_number) ==
    [actor |-> actor, customer |-> customer, items |-> items,
     status |-> status, order_number |-> order_number]

\* again: the request and its answer repeat the exchange just before;
\* before: the status the addressed order had when the request arrived
Exchange(op, tag, id, req) ==
    [op |-> op, tag |-> tag, id |-> id, req |-> req,
     merged |-> 0, consolidatedOrders |-> <<>>, days |-> 0,
     again |-> (res.op = op /\ res.tag = tag /\ res.id = id /\ res.req = req),
     before |-> IF id \in DOMAIN orders THEN orders[id].status ELSE "none"]

\* a response that tells nothing of the request but who sent it
Response(op, tag, actor, id) ==
    Exchange(op, tag, id, [NoRequest EXCEPT !.actor = actor])

NoResponse ==
    [op |-> "none", tag |-> "none", id |-> 0, req |-> NoRequest,
     merged |-> 0, consolidatedOrders |-> <<>>, days |-> 0, again |-> FALSE,
     before |-> "none"]

---------------------------------------------------------------------------
(* POST /api/orders *)

\* products.length !== productIds.length
ProductCheckAnyState(items) ==
    LET productIds == [i \in DOMAIN items |-> items[i].product]
        products   == {p \in DOMAIN Catalog : p \in Range(productIds)}
    IN  Cardinality(products) = Len(productIds)

ProductCheck(items) ==
    LET productIds == [i \in DOMAIN items |-> items[i].product]
        products   == {p \in DOMAIN Catalog : p \in Range(productIds) /\ Catalog[p]}
    IN  Cardinality(products) = Len(productIds)

WindowHours == 24

RecentOrdersAnyAge(ords, customer, t) ==
    SelectSeq([i \in 1..Len(ords) |-> i],
              LAMBDA i : /\ ords[i].customer = customer
                         /\ ords[i].status \in OpenStatuses)

\* Order.find({customer, createdAt >= now - 24h, status in [pendiente, compra]})
RecentOrders(ords, customer, t) ==
    SelectSeq([i \in 1..Len(ords) |-> i],
              LAMBDA i : /\ ords[i].customer = customer
                         /\ ords[i].createdAt >= t - WindowHours
                         /\ ords[i].status \in OpenStatuses)

\* order.items.find(same product, line status pendiente or compra): index or 0
FindLine(lines, product) ==
    LET S == {i \in DOMAIN lines : /\ lines[i].product = product
                                   /\ lines[i].status \in OpenStatuses}
    IN  IF S = {} THEN 0 ELSE CHOOSE i \in S : \A j \in S : i <= j

RECURSIVE DuplicatesOfItem(_, _, _)
DuplicatesOfItem(item, recent, ords) ==
    IF recent = <<>> THEN <<>>
    ELSE LET o   == Head(recent)
             idx == FindLine(ords[o].items, item.product)
             hit == IF idx = 0 THEN <<>>
                    ELSE << [orderId     |-> o,
                             orderNumber |-> ords[o].order_number,
                             itemId      |-> idx,
                             productId   |-> item.product,
                             existingQty |-> ords[o].items[idx].quantity,
                             newQty      |-> item.quantity] >>
         IN  hit \o DuplicatesOfItem(item, Tail(recent), ords)

RECURSIVE DuplicatesOf(_, _, _)
DuplicatesOf(items, recent, ords) ==
    IF items = <<>> THEN <<>>
    ELSE DuplicatesOfItem(Head(items), recent, ords)
            \o DuplicatesOf(Tail(items), recent, ords)

DuplicatesFirstOnly(ords, customer, items, t) ==
    LET all == DuplicatesOf(items, RecentOrders(ords, customer, t), ords)
    IN  IF all = <<>> THEN all ELSE <<all[1]>>

Duplicates(ords, customer, items, t) ==
    DuplicatesOf(items, RecentOrders(ords, customer, t), ords)

MergeOneOverwrite(ords, dup) ==
    IF dup.itemId \in DOMAIN ords[dup.orderId].items
    THEN [ords EXCEPT ![dup.orderId].items[dup.itemId].quantity = dup.newQty]
    ELSE ords

\* findById, items[itemIndex].quantity += dup.newQty, save
MergeOne(ords, dup) ==
    IF dup.itemId \in DOMAIN ords[dup.orderId].items
    THEN [ords EXCEPT ![dup.orderId].items[dup.itemId].quantity = @ + dup.newQty]
    ELSE ords

RECURSIVE Consolidate(_, _)
ConsolidatePush(ords, dups) ==
    IF dups = <<>> THEN ords
    ELSE [ords EXCEPT ![dups[1].orderId].items =
             Append(@, [product  |-> dups[1].productId,
                        quantity |-> dups[1].newQty,
                        status   |-> DefaultStatus])]

Consolidate(ords, dups) ==
    IF dups = <<>> THEN ords
    ELSE Consolidate(MergeOne(ords, Head(dups)), Tail(dups))

NewOrderStamped(customer, items, order_number, t) ==
    [order_number |-> order_number,
     customer     |-> customer,
     items        |-> [i \in DOMAIN items |->
                          [product  |-> items[i].product,
                           quantity |-> items[i].quantity,
                           status   |-> DefaultStatus]],
     status       |-> DefaultStatus,
     delivered_at |-> <<t>>,
     updatedBy    |-> NoUser,
     createdAt    |-> t]

\* the document Order.create builds from the body, schema defaults applied
NewOrder(customer, items, order_number, t) ==
    [order_number |-> order_number,
     customer     |-> customer,
     items        |-> [i \in DOMAIN items |->
                          [product  |-> items[i].product,
                           quantity |-> items[i].quantity,
                           status   |-> DefaultStatus]],
     status       |-> DefaultStatus,
     delivered_at |-> <<>>,
     updatedBy    |-> NoUser,
     createdAt    |-> t]

\* what NotificationConfig.getOrCreateConfig and sendNewOrderNotification may
\* do: every send succeeds, some sends fail (both return a result), the
\* configuration lookup rejects, the dispatcher rejects
DispatchOutcomes == {"sent", "partial", "configThrew", "dispatcherThrew"}

NoDispatchSent == [order |-> 0, outcome |-> "sent"]

NoDispatch == [order |-> 0, outcome |-> "none"]

AfterDispatchUncaught(outcome) ==
    IF outcome \in {"configThrew", "dispatcherThrew"} THEN "ServerError" ELSE "created"

\* try { ... } catch (emailError) { console.error(...) } and then the 201
AfterDispatch(outcome) == "created"

QtyWithin(ords) ==
    \A o \in DOMAIN ords : \A i \in DOMAIN ords[o].items :
        ords[o].items[i].quantity <= MaxQty

CreateOrder(actor, customer, items, order_number) ==
    /\ served < MaxRequests
    /\ served' = served + 1
    /\ UNCHANGED <<now, calls, users, configs, tasks, reply>>
    /\ LET req == Request(actor, customer, items, Absent, order_number) IN
       IF ~Authorize({"vendedor", "admin"}, actor)
       THEN /\ res' = Exchange("create", "Forbidden", 0, req)
            /\ dispatch' = NoDispatch
            /\ UNCHANGED orders
       ELSE IF ~ValidOrderBody(items, order_number)
       THEN /\ res' = Exchange("create", "ValidationError", 0, req)
            /\ dispatch' = NoDispatch
            /\ UNCHANGED orders
       ELSE IF ~ProductCheck(items)
       THEN /\ res' = Exchange("create", "InvalidReference", 0, req)
            /\ dispatch' = NoDispatch
            /\ UNCHANGED orders
       ELSE LET duplicates == Duplicates(orders, customer, items, now) IN
            IF Len(duplicates) > 0
            THEN /\ orders' = Consolidate(orders, duplicates)
                 /\ QtyWithin(orders')
                 /\ res' = [Exchange("create", "merged", 0, req) EXCEPT
                              !.merged = Len(duplicates),
                              !.consolidatedOrders =
                                  [k \in DOMAIN duplicates |-> duplicates[k].orderNumber]]
                 /\ dispatch' = NoDispatch
            ELSE /\ Len(orders) < MaxOrders
                 /\ orders' = Append(orders,
                        PreSave(NewOrder(customer, items, order_number, now), Len(orders)))
                 /\ \E outcome \in DispatchOutcomes :
                       /\ dispatch' = [order |-> Len(orders) + 1, outcome |-> outcome]
                       /\ res' = Exchange("create", AfterDispatch(outcome), Len(orders) + 1, req)

---------------------------------------------------------------------------
(* POST /api/orders, one await at a time: the handler is suspended between *)
(* its duplicate scan, the countDocuments of the pre('save') hook and the  *)
(* insert, and the handler of another connection may run in between.       *)

Connections == {1, 2}

\* dups, k, qty: the duplicates found by the scan, the one the merge loop is
\* at, and the quantity of the line in the document the loop has in memory
Idle == [pc |-> "idle", req |-> NoRequest, count |-> 0, id |-> 0,
         dups |-> <<>>, k |-> 0, qty |-> 0]

\* the request passes the middleware and the product check and finds no duplicate
ReachesCreate(actor, customer, items, order_number) ==
    /\ Authorize({"vendedor", "admin"}, actor)
    /\ ValidOrderBody(items, order_number)
    /\ ProductCheck(items)
    /\ Len(Duplicates(orders, customer, items, now)) = 0

\* the request passes the middleware and the product check and finds duplicates
ReachesMerge(actor, customer, items, order_number) ==
    /\ Authorize({"vendedor", "admin"}, actor)
    /\ ValidOrderBody(items, order_number)
    /\ ProductCheck(items)
    /\ Len(Duplicates(orders, customer, items, now)) > 0

\* up to the end of the duplicate scan; a request that is refused or merged
\* is answered here
Scan(c, actor, customer, items, order_number) ==
    /\ calls[c].pc = "idle"
    /\ IF ReachesCreate(actor, customer, items, order_number)
       THEN /\ served < MaxRequests
            /\ served' = served + 1
            /\ calls' = [calls EXCEPT ![c] =
                            [Idle EXCEPT
                               !.pc  = "save",
                               !.req = Request(actor, customer, items, Absent, order_number)]]
            /\ UNCHANGED <<orders, now, res, dispatch, users, configs, tasks, reply>>
       ELSE CreateOrder(actor, customer, items, order_number)

\* the same handler suspended inside its merge loop instead: up to the end of
\* the duplicate scan; a request that found duplicates enters the loop, any
\* other is served here
ScanMerge(c, actor, customer, items, order_number) ==
    /\ calls[c].pc = "idle"
    /\ IF ReachesMerge(actor, customer, items, order_number)
       THEN /\ served < MaxRequests
            /\ served' = served + 1
            /\ calls' = [calls EXCEPT ![c] =
                            [Idle EXCEPT
                               !.pc   = "find",
                               !.req  = Request(actor, customer, items, Absent, order_number),
                               !.dups = Duplicates(orders, customer, items, now),
                               !.k    = 1]]
            /\ UNCHANGED <<orders, now, res, dispatch, users, configs, tasks, reply>>
       ELSE CreateOrder(actor, customer, items, order_number)

\* const order = await Order.findById(dup.orderId); findIndex;
\* order.items[itemIndex].quantity += dup.newQty
FindById(c) ==
    /\ calls[c].pc = "find"
    /\ LET dup == calls[c].dups[calls[c].k]
           qty == orders[dup.orderId].items[dup.itemId].quantity + dup.newQty
       IN  /\ qty <= MaxQty
           /\ calls' = [calls EXCEPT ![c].pc = "write", ![c].qty = qty]
    /\ UNCHANGED <<orders, now, res, served, dispatch, users, configs, tasks, reply>>

MergeCatchSwallowed == "merged"

\* catch (error) { res.status(500).json({ message: 'Error al crear orden', ... }) }
MergeCatch == "ServerError"

\* await order.save(): the quantity of the line is written as it stands in the
\* document in memory; after the last duplicate the merge response is sent.
\* When save rejects, the handler's catch answers 500; in that response
\* merged counts the writes of this call that went through before.
SaveMerged(c) ==
    /\ calls[c].pc = "write"
    /\ LET dup  == calls[c].dups[calls[c].k]
           dups == calls[c].dups
       IN  \/ /\ orders' = [orders EXCEPT
                               ![dup.orderId].items[dup.itemId].quantity = calls[c].qty]
              /\ IF calls[c].k < Len(dups)
                 THEN /\ calls' = [calls EXCEPT ![c].pc = "find", ![c].k = @ + 1]
                      /\ UNCHANGED <<res, dispatch>>
                 ELSE /\ calls' = [calls EXCEPT ![c] = Idle]
                      /\ res' = [Exchange("create", "merged", 0, calls[c].req) EXCEPT
                                   !.merged = Len(dups),
                                   !.consolidatedOrders =
                                       [j \in DOMAIN dups |-> dups[j].orderNumber]]
                      /\ dispatch' = NoDispatch
           \/ /\ calls' = [calls EXCEPT ![c] = Idle]
              /\ res' = [Exchange("create", MergeCatch, 0, calls[c].req) EXCEPT
                           !.merged = calls[c].k - 1]
              /\ dispatch' = NoDispatch
              /\ UNCHANGED orders
    /\ UNCHANGED <<now, served, users, configs, tasks, reply>>

\* pre('save'): const count = await this.constructor.countDocuments()
CountDocuments(c) ==
    /\ calls[c].pc = "save"
    /\ calls' = [calls EXCEPT ![c].pc = "insert", ![c].count = Len(orders)]
    /\ UNCHANGED <<orders, now, res, served, dispatch, users, configs, tasks, reply>>

\* the insert of Order.create
InsertOrder(c) ==
    /\ calls[c].pc = "insert"
    /\ Len(orders) < MaxOrders
    /\ LET req == calls[c].req IN
       orders' = Append(orders,
              PreSave(NewOrder(req.customer, req.items, req.order_number, now),
                      calls[c].count))
    /\ calls' = [calls EXCEPT ![c].pc = "notify", ![c].id = Len(orders) + 1]
    /\ UNCHANGED <<now, res, served, dispatch, users, configs, tasks, reply>>

\* the notification dispatch and the response
Notify(c) ==
    /\ calls[c].pc = "notify"
    /\ \E outcome \in DispatchOutcomes :
          /\ dispatch' = [order |-> calls[c].id, outcome |-> outcome]
          /\ res' = Exchange("create", AfterDispatch(outcome), calls[c].id, calls[c].req)
    /\ calls' = [calls EXCEPT ![c] = Idle]
    /\ UNCHANGED <<orders, now, served, users, configs, tasks, reply>>

---------------------------------------------------------------------------
(* Users, the notification configuration and the email service.  Each      *)
(* handler is suspended at its awaits, and the handler of another          *)
(* connection may run in between.                                           *)

User(email, role) == [email |-> email, role |-> role, isActive |-> TRUE]

Staff == <<User("vend@x", "vendedor"), User("fact@x", "facturador")>>

Administrator == User("admin@x", "admin")

NoConfig == [userNotifications |-> <<>>, extraEmails |-> <<>>]

\* the document getOrCreateConfig builds: every active user, enabled
DefaultConfig(us) ==
    LET active == SelectSeq(us, LAMBDA u : u.isActive)
    IN  [userNotifications |->
             [i \in DOMAIN active |-> [userId |-> active[i].email, enabled |-> TRUE]],
         extraEmails |-> <<>>]

\* getActiveEmails: the enabled users, then the enabled extra emails
GetActiveEmails(config) ==
    LET us == SelectSeq(config.userNotifications, LAMBDA e : e.enabled)
        ex == SelectSeq(config.extraEmails, LAMBDA e : e.enabled)
    IN  [i \in DOMAIN us |-> us[i].userId] \o [i \in DOMAIN ex |-> ex[i].email]

\* what orders.js hands to the email service as allUsers: the configuration
\* document itself, which is no array
Document(config) == [isArray |-> FALSE, list |-> <<>>, doc |-> config]

\* the return value of the catch, and of the missing Gmail settings:
\* { success: false, message }, with no sent and no failed
NoSummary == [success |-> FALSE, sent |-> Absent, failed |-> Absent, attempted |-> <<>>]

\* sendNewOrderNotification(order, allUsers).  transporter is what
\* nodemailer.createTransporter(...) does: nodemailer documents
\* createTransport, and whether the installed module has the other name is
\* left open.  rejecting: the addresses whose sendMail rejects.
SendNewOrderNotification(allUsers, transporter, gmail, rejecting) ==
    IF transporter = "TypeError" THEN NoSummary
    ELSE IF ~gmail THEN NoSummary
    ELSE IF ~allUsers.isArray THEN NoSummary    \* allUsers.filter is not a function
    ELSE LET activeUsers == SelectSeq(allUsers.list, LAMBDA u : u.isActive)
             mailed      == SelectSeq(activeUsers, LAMBDA u : u.email # Absent)
             successful  == SelectSeq(mailed, LAMBDA u : u.email \notin rejecting)
         IN  [success   |-> TRUE,
              sent      |-> Len(successful),
              failed    |-> Len(activeUsers) - Len(successful),
              attempted |-> [i \in DOMAIN mailed |-> mailed[i].email]]

NoTask == [pc |-> "idle", op |-> "none", arg |-> Absent, doc |-> NoConfig, id |-> 0]

NoReply ==
    [op |-> "none", tag |-> "none", id |-> 0, summary |-> NoSummary,
     recipients |-> <<>>, rejecting |-> {}]

Reply(op, tag, id) == [NoReply EXCEPT !.op = op, !.tag = tag, !.id = id]

\* the middleware of a route that starts with getOrCreateConfig (the
\* notification block of POST /api/orders, GET and PUT /config, POST
\* /extra-email, POST /sync-users) and the call of getOrCreateConfig
Begin(c, op, actor, arg) ==
    /\ tasks[c].pc = "idle"
    /\ IF op # "notify" /\ ~Authorize({"admin"}, actor)
       THEN /\ reply' = Reply(op, "Forbidden", 0)
            /\ UNCHANGED tasks
       ELSE /\ tasks' = [tasks EXCEPT ![c] =
                            [NoTask EXCEPT !.pc = "findOne", !.op = op, !.arg = arg]]
            /\ UNCHANGED reply
    /\ UNCHANGED <<orders, now, res, served, calls, dispatch, users, configs>>

\* let config = await this.findOne()
FindOne(c) ==
    /\ tasks[c].pc = "findOne"
    /\ tasks' = IF configs # <<>>
                THEN [tasks EXCEPT ![c].pc = "act", ![c].doc = configs[1], ![c].id = 1]
                ELSE [tasks EXCEPT ![c].pc = "users"]
    /\ UNCHANGED <<orders, now, res, served, calls, dispatch, users, configs, reply>>

\* const users = await User.find({ isActive: { $ne: false } }); config = new this({...})
FindUsers(c) ==
    /\ tasks[c].pc = "users"
    /\ tasks' = [tasks EXCEPT ![c].pc = "insert", ![c].doc = DefaultConfig(users)]
    /\ UNCHANGED <<orders, now, res, served, calls, dispatch, users, configs, reply>>

\* await config.save().  The index declared over no field
\* (notificationConfigSchema.index({}, { unique: true })) has no key to be
\* unique on and refuses no insert.
InsertConfig(c) ==
    /\ tasks[c].pc = "insert"
    /\ configs' = Append(configs, tasks[c].doc)
    /\ tasks' = [tasks EXCEPT ![c].pc = "act", ![c].id = Len(configs) + 1]
    /\ UNCHANGED <<orders, now, res, served, calls, dispatch, users, reply>>

Acts(c, op) == tasks[c].pc = "act" /\ tasks[c].op = op

\* GET /config
ReadConfig(c) ==
    /\ Acts(c, "read")
    /\ reply' = [Reply("read", "ok", tasks[c].id) EXCEPT
                   !.recipients = GetActiveEmails(tasks[c].doc)]
    /\ tasks' = [tasks EXCEPT ![c] = NoTask]
    /\ UNCHANGED <<orders, now, res, served, calls, dispatch, users, configs>>

\* PUT /config { userNotifications: [] }
UpdateConfig(c) ==
    /\ Acts(c, "update")
    /\ configs' = [configs EXCEPT ![tasks[c].id].userNotifications = <<>>]
    /\ reply' = Reply("update", "ok", tasks[c].id)
    /\ tasks' = [tasks EXCEPT ![c] = NoTask]
    /\ UNCHANGED <<orders, now, res, served, calls, dispatch, users>>

\* POST /extra-email { email, name }
AddExtraEmail(c) ==
    /\ Acts(c, "extra")
    /\ IF \E i \in DOMAIN tasks[c].doc.extraEmails :
             tasks[c].doc.extraEmails[i].email = tasks[c].arg
       THEN /\ reply' = Reply("extra", "Duplicate", tasks[c].id)
            /\ UNCHANGED configs
       ELSE /\ configs' = [configs EXCEPT ![tasks[c].id].extraEmails =
                              Append(@, [email |-> tasks[c].arg, enabled |-> TRUE])]
            /\ reply' = Reply("extra", "ok", tasks[c].id)
    /\ tasks' = [tasks EXCEPT ![c] = NoTask]
    /\ UNCHANGED <<orders, now, res, served, calls, dispatch, users>>

\* POST /sync-users: the active users the document in memory does not list
SyncUsers(c) ==
    /\ Acts(c, "sync")
    /\ LET listed  == {tasks[c].doc.userNotifications[i].userId :
                          i \in DOMAIN tasks[c].doc.userNotifications}
           missing == SelectSeq(users, LAMBDA u : u.isActive /\ u.email \notin listed)
       IN  configs' = [configs EXCEPT ![tasks[c].id].userNotifications =
                          @ \o [i \in DOMAIN missing |->
                                   [userId |-> missing[i].email, enabled |-> TRUE]]]
    /\ reply' = Reply("sync", "ok", tasks[c].id)
    /\ tasks' = [tasks EXCEPT ![c] = NoTask]
    /\ UNCHANGED <<orders, now, res, served, calls, dispatch, users>>

\* const emailResult = await sendNewOrderNotification(order, notificationConfig)
Dispatch(c) ==
    /\ Acts(c, "notify")
    /\ \E transporter \in {"TypeError", "transporter"}, gmail \in BOOLEAN,
          rejecting \in {{}, {"vend@x"}} :
          reply' = [Reply("notify", "ok", tasks[c].id) EXCEPT
                      !.summary = SendNewOrderNotification(Document(tasks[c].doc),
                                      transporter, gmail, rejecting),
                      !.recipients = GetActiveEmails(tasks[c].doc),
                      !.rejecting = rejecting]
    /\ tasks' = [tasks EXCEPT ![c] = NoTask]
    /\ UNCHANGED <<orders, now, res, served, calls, dispatch, users, configs>>

---------------------------------------------------------------------------
(* POST /api/users/emergency-admin *)

Body(name, email, password) == [name |-> name, email |-> email, password |-> password]

AdminCount(us) == Cardinality({i \in DOMAIN us : us[i].role = "admin"})

\* const adminCount = await User.countDocuments({ role: 'admin' }) and the
\* two refusals
CountAdmins(c, body) ==
    /\ tasks[c].pc = "idle"
    /\ IF AdminCount(users) > 0
       THEN /\ reply' = Reply("emergency", "AdminExists", 0)
            /\ UNCHANGED tasks
       ELSE IF body.name = Absent \/ body.email = Absent \/ body.password = Absent
       THEN /\ reply' = Reply("emergency", "ValidationError", 0)
            /\ UNCHANGED tasks
       ELSE /\ tasks' = [tasks EXCEPT ![c] =
                            [NoTask EXCEPT !.pc = "create", !.op = "emergency",
                                           !.arg = body.email]]
            /\ UNCHANGED reply
    /\ UNCHANGED <<orders, now, res, served, calls, dispatch, users, configs>>

\* const admin = await User.create({ name, email, password, role: 'admin' });
\* the unique index on email refuses a second user with the same address
CreateAdmin(c) ==
    /\ tasks[c].pc = "create"
    /\ IF \E i \in DOMAIN users : users[i].email = tasks[c].arg
       THEN /\ reply' = Reply("emergency", "ServerError", 0)
            /\ UNCHANGED users
       ELSE /\ users' = Append(users, User(tasks[c].arg, "admin"))
            /\ reply' = Reply("emergency", "created", Len(users) + 1)
    /\ tasks' = [tasks EXCEPT ![c] = NoTask]
    /\ UNCHANGED <<orders, now, res, served, calls, dispatch, configs>>

---------------------------------------------------------------------------
(* PATCH /api/orders/:id/status *)

Cascade(lines, status) == [i \in DOMAIN lines |-> [lines[i] EXCEPT !.status = status]]

ClearDeliveryOnPending(order, status) ==
    IF status = "pendiente" /\ order.delivered_at # <<>>
    THEN <<>> ELSE order.delivered_at

\* if (['compra', 'pendiente'].includes(status) && order.delivered_at) order.delivered_at = null
ClearDelivery(order, status) ==
    IF status \in {"compra", "pendiente"} /\ order.delivered_at # <<>>
    THEN <<>> ELSE order.delivered_at

ApplyStatusStale(order, status, actor) ==
    [order EXCEPT !.status = status,
                  !.items = Cascade(@, order.status),
                  !.delivered_at = ClearDelivery(order, status),
                  !.updatedBy = actor]

\* order.status = status, the cascade to the items, delivered_at, updatedBy
ApplyStatus(order, status, actor) ==
    [order EXCEPT !.status = status,
                  !.items = Cascade(@, status),
                  !.delivered_at = ClearDelivery(order, status),
                  !.updatedBy = actor]

\* virtual isDelivered: !!this.delivered_at
IsDelivered(order) == order.delivered_at # <<>>

ChangeStatus(actor, id, status) ==
    /\ served < MaxRequests
    /\ served' = served + 1
    /\ UNCHANGED <<now, calls, users, configs, tasks, reply>>
    /\ dispatch' = NoDispatch
    /\ LET req == Request(actor, Absent, <<>>, status, <<>>) IN
       IF ~Authorize({"facturador", "admin"}, actor)
       THEN /\ res' = Exchange("status", "Forbidden", id, req)
            /\ UNCHANGED orders
       ELSE IF ~ValidStatusBody(status)
       THEN /\ res' = Exchange("status", "InvalidStatus", id, req)
            /\ UNCHANGED orders
       ELSE IF id \notin DOMAIN orders
       THEN /\ res' = Exchange("status", "NotFound", id, req)
            /\ UNCHANGED orders
       ELSE /\ orders' = [orders EXCEPT ![id] = ApplyStatus(@, status, actor)]
            /\ res' = Exchange("status", "ok", id, req)

---------------------------------------------------------------------------
(* PATCH /api/orders/:id/deliver *)

DeliverableDoubleGuard(order) == order.status = "facturado" /\ order.delivered_at = <<>>

\* order.status !== 'facturado' is refused
Deliverable(order) == order.status = "facturado"

MarkDeliveredStampFirst(actor, id) ==
    /\ served < MaxRequests
    /\ served' = served + 1
    /\ UNCHANGED <<now, calls, users, configs, tasks, reply>>
    /\ dispatch' = NoDispatch
    /\ IF ~Authorize({"facturador", "admin"}, actor)
       THEN /\ res' = Response("deliver", "Forbidden", actor, 0)
            /\ UNCHANGED orders
       ELSE IF id \notin DOMAIN orders
       THEN /\ res' = Response("deliver", "NotFound", actor, 0)
            /\ UNCHANGED orders
       ELSE /\ orders' = [orders EXCEPT ![id] =
                            [@ EXCEPT !.delivered_at = <<now>>,
                                      !.updatedBy = actor]]
            /\ res' = Response("deliver",
                               IF Deliverable(orders[id]) THEN "ok" ELSE "InvalidTransition",
                               actor, id)

MarkDelivered(actor, id) ==
    /\ served < MaxRequests
    /\ served' = served + 1
    /\ UNCHANGED <<now, calls, users, configs, tasks, reply>>
    /\ dispatch' = NoDispatch
    /\ IF ~Authorize({"facturador", "admin"}, actor)
       THEN /\ res' = Response("deliver", "Forbidden", actor, 0)
            /\ UNCHANGED orders
       ELSE IF id \notin DOMAIN orders
       THEN /\ res' = Response("deliver", "NotFound", actor, 0)
            /\ UNCHANGED orders
       ELSE IF ~Deliverable(orders[id])
       THEN /\ res' = Response("deliver", "InvalidTransition", actor, id)
            /\ UNCHANGED orders
       ELSE /\ orders' = [orders EXCEPT ![id] =
                            [@ EXCEPT !.delivered_at = <<now>>,
                                      !.updatedBy = actor]]
            /\ res' = Response("deliver", "ok", actor, id)

---------------------------------------------------------------------------
(* PATCH /api/orders/:id/nullify *)

DayHours == 24

DaysDiffRounded(order, today) == (today - order.createdAt + (DayHours \div 2)) \div DayHours

\* Math.floor((today - createdDate) / (1000 * 60 * 60 * 24))
DaysDiff(order, today) == (today - order.createdAt) \div DayHours

MinDays == 7

TooEarlyBelowSix(order, today) == DaysDiff(order, today) < MinDays - 1

\* if (daysDiff < 7)
TooEarly(order, today) == DaysDiff(order, today) < MinDays

NullifiableUnlessNull(order) == order.status # "nulo"

\* ['pendiente', 'compra'].includes(order.status)
Nullifiable(order) == order.status \in {"pendiente", "compra"}

Nullify(actor, id) ==
    /\ served < MaxRequests
    /\ served' = served + 1
    /\ UNCHANGED <<now, calls, users, configs, tasks, reply>>
    /\ dispatch' = NoDispatch
    /\ IF ~Authorize({"facturador", "admin"}, actor)
       THEN /\ res' = Response("nullify", "Forbidden", actor, 0)
            /\ UNCHANGED orders
       ELSE IF id \notin DOMAIN orders
       THEN /\ res' = Response("nullify", "NotFound", actor, 0)
            /\ UNCHANGED orders
       ELSE IF TooEarly(orders[id], now)
       THEN /\ res' = [Response("nullify", "TooEarly", actor, id) EXCEPT
                          !.days = DaysDiff(orders[id], now)]
            /\ UNCHANGED orders
       ELSE IF ~Nullifiable(orders[id])
       THEN /\ res' = Response("nullify", "InvalidTransition", actor, id)
            /\ UNCHANGED orders
       ELSE /\ orders' = [orders EXCEPT ![id] =
                            [@ EXCEPT !.status = "nulo",
                                      !.items = Cascade(@, "nulo"),
                                      !.updatedBy = actor]]
            /\ res' = Response("nullify", "ok", actor, id)

---------------------------------------------------------------------------
(* PATCH /api/orders/:id   (no request schema)                             *)
(* status and customer are a value or Absent; items is <<>> when the body  *)
(* has none and <<list>> when it carries an array.                         *)

\* order.items = items: each element cast by orderItemSchema
CastItems(items) ==
    [i \in DOMAIN items |->
        [product  |-> items[i].product,
         quantity |-> items[i].quantity,
         status   |-> IF items[i].status = Absent THEN DefaultStatus
                      ELSE items[i].status]]

PartialUpdate(actor, id, status, customer, items) ==
    /\ served < MaxRequests
    /\ served' = served + 1
    /\ UNCHANGED <<now, calls, users, configs, tasks, reply>>
    /\ dispatch' = NoDispatch
    /\ IF ~Authorize({"facturador", "admin"}, actor)
       THEN /\ res' = Response("patch", "Forbidden", actor, 0)
            /\ UNCHANGED orders
       ELSE IF id \notin DOMAIN orders
       THEN /\ res' = Response("patch", "NotFound", actor, 0)
            /\ UNCHANGED orders
       ELSE LET order == orders[id]
                o1 == IF status # Absent /\ status \in {"pendiente", "compra", "facturado", "nulo"}
                      THEN [order EXCEPT !.status = status,
                                         !.items = Cascade(@, status),
                                         !.delivered_at = ClearDelivery(order, status)]
                      ELSE order
                o2 == IF customer # Absent THEN [o1 EXCEPT !.customer = customer] ELSE o1
                o3 == IF items # <<>> THEN [o2 EXCEPT !.items = CastItems(items[1])] ELSE o2
                o4 == [o3 EXCEPT !.updatedBy = actor]
            IN  /\ orders' = [orders EXCEPT ![id] = o4]
                /\ res' = Exchange("patch", "ok", id, Request(actor, customer, items, status, <<>>))

---------------------------------------------------------------------------
(* PUT /api/orders/:id                                                     *)
(* order_number is <<>> when the body has none and <<string>> otherwise.   *)

FullUpdate(actor, id, customer, items, order_number) ==
    /\ served < MaxRequests
    /\ served' = served + 1
    /\ UNCHANGED <<now, calls, users, configs, tasks, reply>>
    /\ dispatch' = NoDispatch
    /\ IF ~Authorize({"admin"}, actor)
       THEN /\ res' = Response("put", "Forbidden", actor, 0)
            /\ UNCHANGED orders
       ELSE IF ~ValidOrderBody(items, IF order_number = <<>> THEN <<>> ELSE order_number[1])
       THEN /\ res' = Response("put", "ValidationError", actor, 0)
            /\ UNCHANGED orders
       ELSE IF id \notin DOMAIN orders
       THEN /\ res' = Response("put", "NotFound", actor, 0)
            /\ UNCHANGED orders
       ELSE /\ orders' = [orders EXCEPT ![id] =
                            [@ EXCEPT !.customer = customer,
                                      !.items = NewOrder(customer, items, <<>>, now).items,
                                      !.order_number = IF order_number = <<>> THEN @
                                                       ELSE order_number[1],
                                      !.updatedBy = actor]]
            /\ res' = Exchange("put", "ok", id, Request(actor, customer, items, Absent, order_number))

---------------------------------------------------------------------------
(* DELETE /api/orders/:id *)

SoftDelete(actor, id) ==
    /\ served < MaxRequests
    /\ served' = served + 1
    /\ UNCHANGED <<now, calls, users, configs, tasks, reply>>
    /\ dispatch' = NoDispatch
    /\ IF ~Authorize({"admin"}, actor)
       THEN /\ res' = Response("delete", "Forbidden", actor, 0)
            /\ UNCHANGED orders
       ELSE IF id \notin DOMAIN orders
       THEN /\ res' = Response("delete", "NotFound", actor, 0)
            /\ UNCHANGED orders
       ELSE /\ orders' = [orders EXCEPT ![id] =
                            [@ EXCEPT !.status = "nulo", !.updatedBy = actor]]
            /\ res' = Response("delete", "ok", actor, id)

---------------------------------------------------------------------------
(* The clock *)

TickSteps == {12, 156, 168}

Tick(d) ==
    /\ served < MaxRequests
    /\ now + d <= MaxNow
    /\ served' = served + 1
    /\ now' = now + d
    /\ UNCHANGED <<orders, res, calls, dispatch, users, configs, tasks, reply>>

---------------------------------------------------------------------------
(* Requests *)

Item(p, q) == [product |-> p, quantity |-> q]

Line(p, q, s) == [product |-> p, quantity |-> q, status |-> s]

\* bodies of POST /: the seller sends well-formed orders, one of them for
\* the second customer and one with an order_number of its own, and for c1
\* an empty list, a zero quantity, an inactive product, an unknown product
\* and a product named on two lines; the biller tries one order
CreateRequests ==
    {Request("vend", "c1", it, Absent, <<>>) :
        it \in { <<Item("p1", 1)>>,
                 <<Item("p1", 2)>>,
                 <<Item("p1", 1), Item("p2", 2)>>,
                 <<>>,
                 <<Item("p1", 0)>>,
                 <<Item("p3", 1)>>,
                 <<Item("p0", 1)>>,
                 <<Item("p1", 1), Item("p1", 2)>>,
                 <<Item("p2", 1), Item("p3", 1)>> }}
    \cup {Request("vend", "c2", <<Item("p1", 1)>>, Absent, <<>>),
          Request("vend", "c1", <<Item("p1", 1)>>, Absent, GenerateOrderNumber(0)),
          Request("fact", "c1", <<Item("p1", 1)>>, Absent, <<>>)}

\* req.params.id: the id of a stored order, or one id that no order has
OrderIds == 1..(Len(orders) + 1)

\* bodies of PATCH /:id/status
StatusRequests ==
    {Request("fact", Absent, <<>>, s, <<>>) : s \in Statuses \cup {"otro"}}
    \cup {Request("vend", Absent, <<>>, "nulo", <<>>)}

\* bodies of PATCH /:id
PatchRequests ==
    {Request("fact", Absent, <<>>, s, <<>>) : s \in {"pendiente", "facturado", "nulo", "otro"}}
    \cup {Request("fact", c, <<>>, Absent, <<>>) : c \in Customers}
    \cup {Request("fact", Absent, << <<Line("p1", 1, Absent)>> >>, "facturado", <<>>),
          Request("fact", Absent, << <<Line("p1", 1, "facturado")>> >>, Absent, <<>>),
          Request("fact", Absent,
                  << <<Line("p2", 1, Absent), Line("p1", 1, Absent), Line("p1", 2, Absent)>> >>,
                  Absent, <<>>),
          Request("fact", Absent, << <<>> >>, Absent, <<>>),
          Request("vend", Absent, <<>>, "nulo", <<>>)}

\* bodies of PUT /:id
PutRequests ==
    { Request("admin", "c1", <<>>, Absent, <<>>),
      Request("admin", "c1", <<Item("p1", 1)>>, Absent, <<>>),
      Request("admin", "c2", <<Item("p2", 2), Item("p2", 1)>>, Absent, <<GenerateOrderNumber(0)>>),
      Request("fact", "c1", <<Item("p1", 1)>>, Absent, <<>>) }

\* bodies of POST / that leave order_number to the server
AutoNumberRequests == {r \in CreateRequests : r.order_number = <<>>}

Init ==
    /\ orders = <<>>
    /\ now = 0
    /\ res = NoResponse
    /\ served = 0
    /\ calls = [c \in Connections |-> Idle]
    /\ dispatch = NoDispatch
    /\ users = Staff \o <<Administrator>>
    /\ configs = <<>>
    /\ tasks = [c \in Connections |-> NoTask]
    /\ reply = NoReply

Next ==
    \/ \E d \in TickSteps : Tick(d)
    \/ \E r \in CreateRequests :
          CreateOrder(r.actor, r.customer, r.items, r.order_number)
    \/ \E r \in StatusRequests, id \in OrderIds : ChangeStatus(r.actor, id, r.status)
    \/ \E a \in {"fact", "vend"}, id \in OrderIds : MarkDelivered(a, id)
    \/ \E a \in {"fact", "vend"}, id \in OrderIds : Nullify(a, id)
    \/ \E r \in PatchRequests, id \in OrderIds :
          PartialUpdate(r.actor, id, r.status, r.customer, r.items)
    \/ \E r \in PutRequests, id \in OrderIds :
          FullUpdate(r.actor, id, r.customer, r.items, r.order_number)
    \/ \E a \in {"admin", "fact"}, id \in OrderIds : SoftDelete(a, id)

Spec == Init /\ [][Next]_vars

\* two connections posting orders, no caller choosing an order_number
NextRace ==
    \/ \E c \in Connections, r \in AutoNumberRequests :
          Scan(c, r.actor, r.customer, r.items, r.order_number)
    \/ \E c \in Connections : CountDocuments(c)
    \/ \E c \in Connections : InsertOrder(c)
    \/ \E c \in Connections : Notify(c)

SpecRace == Init /\ [][NextRace]_vars

\* bodies of POST / of one customer that can merge into each other
MergeRequests ==
    {Request("vend", "c1", it, Absent, <<>>) :
        it \in { <<Item("p1", 1)>>,
                 <<Item("p1", 2)>>,
                 <<Item("p1", 1), Item("p2", 1)>> }}

\* bodies of PATCH /:id/status that close an order
ClosingRequests == {r \in StatusRequests : r.status \in {"facturado", "nulo"}}

\* two connections posting orders that merge, and a biller closing orders in
\* between
NextMerge ==
    \/ \E c \in Connections, r \in MergeRequests :
          ScanMerge(c, r.actor, r.customer, r.items, r.order_number)
    \/ \E c \in Connections : FindById(c)
    \/ \E c \in Connections : SaveMerged(c)
    \/ \E r \in ClosingRequests, id \in OrderIds : ChangeStatus(r.actor, id, r.status)

SpecMerge == Init /\ [][NextMerge]_vars

\* the configuration routes called by an admin and by a vendedor, and the
\* notification block of POST /api/orders
ConfigRequests ==
    {[op |-> op, actor |-> "admin", arg |-> Absent] : op \in {"read", "update", "sync"}}
    \cup {[op |-> "extra", actor |-> "admin", arg |-> "extra@x"],
          [op |-> "read", actor |-> "vend", arg |-> Absent],
          [op |-> "notify", actor |-> "vend", arg |-> Absent]}

NextConfig ==
    \/ \E c \in Connections, r \in ConfigRequests : Begin(c, r.op, r.actor, r.arg)
    \/ \E c \in Connections : FindOne(c)
    \/ \E c \in Connections : FindUsers(c)
    \/ \E c \in Connections : InsertConfig(c)
    \/ \E c \in Connections : ReadConfig(c)
    \/ \E c \in Connections : UpdateConfig(c)
    \/ \E c \in Connections : AddExtraEmail(c)
    \/ \E c \in Connections : SyncUsers(c)
    \/ \E c \in Connections : Dispatch(c)

SpecConfig == Init /\ [][NextConfig]_vars

\* bodies of POST /emergency-admin
EmergencyBodies ==
    {Body("root", e, "secret") : e \in {"root@x", "boss@x", "chief@x", "vend@x"}}
    \cup {Body("root", "root@x", Absent)}

\* a system whose last admin is gone
InitNoAdmin ==
    /\ orders = <<>>
    /\ now = 0
    /\ res = NoResponse
    /\ served = 0
    /\ calls = [c \in Connections |-> Idle]
    /\ dispatch = NoDispatch
    /\ users = Staff
    /\ configs = <<>>
    /\ tasks = [c \in Connections |-> NoTask]
    /\ reply = NoReply

NextAdmin ==
    \/ \E c \in Connections, body \in EmergencyBodies : CountAdmins(c, body)
    \/ \E c \in Connections : CreateAdmin(c)

SpecAdmin == InitNoAdmin /\ [][NextAdmin]_vars

---------------------------------------------------------------------------
(* Vocabulary of the properties *)

IsOpen(s) == s = "pendiente" \/ s = "compra"

MayCreate(a) == Role(a) = "vendedor" \/ Role(a) = "admin"

MayBill(a) == Role(a) = "facturador" \/ Role(a) = "admin"

AgeHours(o) == now - orders[o].createdAt

\* the step serves a request of the given operation
Served(op) == now' = now /\ served' = served + 1 /\ res'.op = op

Created == Len(orders') = Len(orders) + 1

Lines == UNION {{<<o, l>> : l \in DOMAIN orders[o].items} : o \in DOMAIN orders}

\* line ol is an open line for product p in a recent open order of customer c
IsCandidate(ol, c, p) ==
    /\ orders[ol[1]].customer = c
    /\ AgeHours(ol[1]) <= 24
    /\ IsOpen(orders[ol[1]].status)
    /\ orders[ol[1]].items[ol[2]].product = p
    /\ IsOpen(orders[ol[1]].items[ol[2]].status)

RECURSIVE LexLess(_, _)
LexLess(x, y) ==
    IF y = <<>> THEN FALSE
    ELSE IF x = <<>> THEN TRUE
    ELSE IF x[1] # y[1] THEN x[1] < y[1]
    ELSE LexLess(Tail(x), Tail(y))

IsOrderNumberForm(x) ==
    /\ Len(x) = 9
    /\ SubSeq(x, 1, 3) = <<79, 67, 45>>
    /\ \A i \in 4..9 : x[i] \in 48..57

RECURSIVE DigitsValue(_)
DigitsValue(ds) ==
    IF ds = <<>> THEN 0
    ELSE 10 * DigitsValue(SubSeq(ds, 1, Len(ds) - 1)) + (ds[Len(ds)] - 48)

NumberOf(x) == DigitsValue(SubSeq(x, 4, Len(x)))

---------------------------------------------------------------------------
(* C1 *)

\* C1: in every state reached by successful order writes, the status of an
\* order equals the status of every one of its items.
C1_StatusMirrored ==
    \A o \in DOMAIN orders : \A i \in DOMAIN orders[o].items :
        orders[o].items[i].status = orders[o].status

---------------------------------------------------------------------------
(* C2 *)

\* the merge the claim describes, of the one-line request of the step into line ol
MergedInto(ol) ==
    /\ res'.tag = "merged"
    /\ orders'[ol[1]].items[ol[2]].quantity
          = orders[ol[1]].items[ol[2]].quantity + res'.req.items[1].quantity
    /\ Len(orders') = Len(orders)
    /\ res'.merged = 1
    /\ res'.consolidatedOrders = <<orders[ol[1]].order_number>>

OneLineCreate ==
    /\ Served("create")
    /\ MayCreate(res'.req.actor)
    /\ Len(res'.req.items) = 1
    /\ res'.req.items[1].quantity > 0

\* C2 as stated: when customer c has an open order created less than 24
\* hours ago with an open line for product p of quantity q, CreateOrder(c,
\* {p, n}) is a merge: that line becomes q + n, no order is added, and the
\* response reports 1 merged line and that order's order_number.
C2_MergeAnyLine ==
    [][OneLineCreate =>
         \A ol \in Lines :
            (/\ IsCandidate(ol, res'.req.customer, res'.req.items[1].product)
             /\ AgeHours(ol[1]) < 24) => MergedInto(ol)]_vars

\* C2 amended: the same, when that line is the customer's only open line for
\* p in an open order of the last 24 hours.
C2_MergeOnlyLine ==
    [][OneLineCreate =>
         \A ol \in Lines :
            (/\ IsCandidate(ol, res'.req.customer, res'.req.items[1].product)
             /\ AgeHours(ol[1]) < 24
             /\ \A other \in Lines :
                   IsCandidate(other, res'.req.customer, res'.req.items[1].product)
                      => other = ol) => MergedInto(ol)]_vars

\* a one-line request has been merged into a line of an order created 12
\* hours earlier, which now holds 1 + 2
C2_Witness ==
    /\ res.op = "create"
    /\ res.tag = "merged"
    /\ res.merged = 1
    /\ res.req.items = <<[product |-> "p1", quantity |-> 2]>>
    /\ \E o \in DOMAIN orders :
          /\ res.consolidatedOrders = <<orders[o].order_number>>
          /\ AgeHours(o) = 12
          /\ orders[o].items = <<[product |-> "p1", quantity |-> 3, status |-> "pendiente"]>>

---------------------------------------------------------------------------
(* C3 *)

CandidateOfRequest(ol) ==
    \E k \in DOMAIN res'.req.items :
        IsCandidate(ol, res'.req.customer, res'.req.items[k].product)

\* C3: a CreateOrder that is not rejected adds quantity only to lines that
\* are duplicate candidates (same customer, created within 24 hours, order
\* and line status pendiente or compra, same product); when no line is a
\* candidate it creates a new order and changes no existing order.
C3_CandidateRule ==
    [][(Served("create") /\ res'.tag \in {"merged", "created"}) =>
          /\ \A ol \in Lines :
                orders'[ol[1]].items[ol[2]] # orders[ol[1]].items[ol[2]]
                   => CandidateOfRequest(ol)
          /\ res'.tag = "merged" => \E ol \in Lines : CandidateOfRequest(ol)
          /\ (~ \E ol \in Lines : CandidateOfRequest(ol)) =>
                /\ res'.tag = "created"
                /\ Created
                /\ \A o \in DOMAIN orders : orders'[o] = orders[o]]_vars

\* a new order was created although an older order of the same customer holds
\* the same product: that order is more than 24 hours old or no longer open
C3_Witness ==
    /\ res.op = "create"
    /\ res.tag = "created"
    /\ res.id \in DOMAIN orders
    /\ \E o \in DOMAIN orders :
          /\ o < res.id
          /\ orders[o].customer = res.req.customer
          /\ \E i \in DOMAIN orders[o].items :
                orders[o].items[i].product = res.req.items[1].product
          /\ \/ orders[res.id].createdAt - orders[o].createdAt > 24
             \/ orders[o].status \in {"facturado", "nulo"}

---------------------------------------------------------------------------
(* C4 *)

\* C4: a CreateOrder with 1 to 20 items, every quantity > 0 and every product
\* active (two lines may name the same product), issued when the customer has
\* no recent order, creates a new order whose status and item statuses are
\* all pendiente.
C4_ValidInputCreates ==
    [][(/\ Served("create")
        /\ MayCreate(res'.req.actor)
        /\ Len(res'.req.items) \in 1..20
        /\ \A k \in DOMAIN res'.req.items :
              /\ res'.req.items[k].quantity > 0
              /\ res'.req.items[k].product \in DOMAIN Catalog
              /\ Catalog[res'.req.items[k].product]
        /\ \A o \in DOMAIN orders :
              orders[o].customer = res'.req.customer => AgeHours(o) > 24) =>
          /\ res'.tag = "created"
          /\ Created
          /\ orders'[Len(orders')].status = "pendiente"
          /\ \A i \in DOMAIN orders'[Len(orders')].items :
                orders'[Len(orders')].items[i].status = "pendiente"]_vars

---------------------------------------------------------------------------
(* C5 *)

NewNumber == orders'[Len(orders')].order_number

\* C5: each newly created order receives an order_number of the
\* form OC-NNNNNN that is strictly greater, numerically and
\* lexicographically, than the order_number of every order created before it.
C5_NumbersIncrease ==
    [][Created =>
          /\ IsOrderNumberForm(NewNumber)
          /\ \A o \in DOMAIN orders :
                /\ NumberOf(orders[o].order_number) < NumberOf(NewNumber)
                /\ LexLess(orders[o].order_number, NewNumber)]_vars

---------------------------------------------------------------------------
(* C6 *)

\* C6: under any interleaving of CreateOrder calls and any later updates, no
\* two orders carry the same order_number and the order_number of an order
\* never changes after its creation.
C6_UniqueNeverReassigned ==
    [][/\ \A a, b \in DOMAIN orders' :
             a # b => orders'[a].order_number # orders'[b].order_number
       /\ \A o \in DOMAIN orders :
             orders'[o].order_number = orders[o].order_number]_vars

---------------------------------------------------------------------------
(* C7 *)

NullifyServed ==
    /\ Served("nullify")
    /\ MayBill(res'.req.actor)
    /\ res'.tag # "NotFound"

\* C7: Nullify on an existing order fails with TooEarly, reporting
\* floor((now - createdAt) / 1 day) and changing nothing, whenever that number
\* is below 7; for an order with status pendiente or compra it succeeds when
\* the number is exactly 7, setting the order status and every item status to
\* nulo and updatedBy to the actor.
C7_AgeGate ==
    [][NullifyServed =>
          LET id   == res'.id
              days == (now - orders[id].createdAt) \div 24
          IN  /\ days < 7 =>
                    /\ res'.tag = "TooEarly"
                    /\ res'.days = days
                    /\ orders' = orders
              /\ (days = 7 /\ IsOpen(orders[id].status)) =>
                    /\ res'.tag = "ok"
                    /\ orders'[id].status = "nulo"
                    /\ \A i \in DOMAIN orders'[id].items :
                          orders'[id].items[i].status = "nulo"
                    /\ orders'[id].updatedBy = res'.req.actor]_vars

\* an order created exactly 7 days (168 hours) ago has been nullified
C7_Witness ==
    /\ res.op = "nullify"
    /\ res.tag = "ok"
    /\ res.id \in DOMAIN orders
    /\ now - orders[res.id].createdAt = 168
    /\ orders[res.id].status = "nulo"
    /\ \A i \in DOMAIN orders[res.id].items : orders[res.id].items[i].status = "nulo"
    /\ orders[res.id].updatedBy = "fact"

---------------------------------------------------------------------------
(* C8 *)

NullifyClosed ==
    /\ NullifyServed
    /\ orders[res'.id].status \in {"facturado", "nulo"}

\* C8 as stated: Nullify on an order whose status is facturado or nulo fails
\* with InvalidTransition whatever the age of the order, and the order is
\* unchanged.
C8_ClosedIsInvalidTransition ==
    [][NullifyClosed =>
          /\ res'.tag = "InvalidTransition"
          /\ orders' = orders]_vars

\* C8 amended: Nullify on an order whose status is facturado or nulo leaves
\* the order unchanged and fails with TooEarly when the order is younger
\* than 7 days, with InvalidTransition when it is 7 days old or older.
C8_ClosedFailsByAge ==
    [][NullifyClosed =>
          /\ orders' = orders
          /\ res'.tag = IF AgeHours(res'.id) < 168 THEN "TooEarly"
                        ELSE "InvalidTransition"]_vars

\* an invoiced order that is 7 days old has been refused with InvalidTransition
C8_Witness ==
    /\ res.op = "nullify"
    /\ res.tag = "InvalidTransition"
    /\ res.id \in DOMAIN orders
    /\ orders[res.id].status = "facturado"
    /\ AgeHours(res.id) >= 168

---------------------------------------------------------------------------
(* C9 *)

BecomesNullified(o) == orders[o].status # "nulo" /\ orders'[o].status = "nulo"

\* C9 as stated: on every path (Nullify, ChangeStatus, PartialUpdate,
\* DELETE) the status of an order becomes nulo only when the order is at
\* least 7 days old and its status at that moment is pendiente or compra.
C9_GateOnEveryPath ==
    [][\A o \in DOMAIN orders :
          BecomesNullified(o) =>
             /\ AgeHours(o) >= 168
             /\ IsOpen(orders[o].status)]_vars

\* C9 amended: through Nullify the status of an order becomes nulo only when
\* the order is at least 7 days old and its status at that moment is
\* pendiente or compra.
C9_GateOnNullify ==
    [][Served("nullify") =>
          \A o \in DOMAIN orders :
             BecomesNullified(o) =>
                /\ AgeHours(o) >= 168
                /\ IsOpen(orders[o].status)]_vars

\* Nullify has set an open order to nulo when the order was 7 days old
C9_Witness ==
    /\ res.op = "nullify"
    /\ res.tag = "ok"
    /\ res.id \in DOMAIN orders
    /\ orders[res.id].status = "nulo"
    /\ AgeHours(res.id) >= 168
    /\ orders[res.id].delivered_at = <<>>

---------------------------------------------------------------------------
(* C10 *)

\* C10: MarkDelivered on an existing order fails with InvalidTransition and
\* leaves the order unchanged when the status is not facturado; when it is
\* facturado it succeeds and sets delivered_at to the current time and
\* updatedBy to the actor, also when delivered_at was already set.
C10_DeliverGuard ==
    [][(/\ Served("deliver")
        /\ MayBill(res'.req.actor)
        /\ res'.tag # "NotFound") =>
          LET id == res'.id IN
          IF orders[id].status # "facturado"
          THEN /\ res'.tag = "InvalidTransition"
               /\ orders' = orders
          ELSE /\ res'.tag = "ok"
               /\ orders'[id].delivered_at = <<now>>
               /\ orders'[id].updatedBy = res'.req.actor
               /\ orders'[id].status = "facturado"]_vars

\* an invoiced order has been marked delivered at the current time
C10_Witness ==
    /\ res.op = "deliver"
    /\ res.tag = "ok"
    /\ res.id \in DOMAIN orders
    /\ orders[res.id].status = "facturado"
    /\ orders[res.id].delivered_at = <<now>>
    /\ orders[res.id].updatedBy = "fact"

---------------------------------------------------------------------------
(* C11 *)

\* C11: ChangeStatus to pendiente or compra on an order whose delivered_at
\* is set clears delivered_at, so isDelivered is false afterwards;
\* ChangeStatus to facturado or nulo leaves delivered_at as it was.
C11_RevertClearsDelivery ==
    [][(Served("status") /\ res'.tag = "ok") =>
          LET id == res'.id
              s  == res'.req.status
          IN  /\ (IsOpen(s) /\ orders[id].delivered_at # <<>>) =>
                    /\ orders'[id].delivered_at = <<>>
                    /\ ~IsDelivered(orders'[id])
              /\ (s = "facturado" \/ s = "nulo") =>
                    orders'[id].delivered_at = orders[id].delivered_at]_vars

\* ChangeStatus to nulo has been answered on a delivered order, and the
\* delivery date that MarkDelivered wrote is still there
C11_Witness ==
    /\ res.op = "status"
    /\ res.tag = "ok"
    /\ res.req.status = "nulo"
    /\ res.id \in DOMAIN orders
    /\ orders[res.id].status = "nulo"
    /\ IsDelivered(orders[res.id])

---------------------------------------------------------------------------
(* C12 *)

\* C12: delivered_at is non-null only for an order whose status is, or at
\* some earlier point was, facturado: it is null on a new order, it is
\* written only while the status is facturado, and no order with status
\* pendiente or compra has it set.
C12_DeliveredOnlyIfInvoiced ==
    [][\A o \in DOMAIN orders' :
          /\ IsOpen(orders'[o].status) => orders'[o].delivered_at = <<>>
          /\ o \notin DOMAIN orders => orders'[o].delivered_at = <<>>
          /\ (/\ o \in DOMAIN orders
              /\ orders'[o].delivered_at # <<>>
              /\ orders'[o].delivered_at # orders[o].delivered_at) =>
                 orders[o].status = "facturado"]_vars

\* a delivered order has been soft-deleted: its status is nulo, it was
\* facturado when it was delivered, and delivered_at is still set
C12_Witness ==
    /\ res.op = "delete"
    /\ res.tag = "ok"
    /\ res.id \in DOMAIN orders
    /\ orders[res.id].status = "nulo"
    /\ orders[res.id].delivered_at # <<>>

---------------------------------------------------------------------------
(* C13 *)

\* C13: ChangeStatus(id, s) by the same actor twice in a row leaves the order
\* after the second call as it was after the first.
C13_ChangeStatusIdempotent ==
    [][(/\ Served("status")
        /\ res'.tag = "ok"
        /\ res.op = "status"
        /\ res.tag = "ok"
        /\ res.id = res'.id
        /\ res.req = res'.req) =>
          orders'[res'.id] = orders[res'.id]]_vars

\* the same ChangeStatus to compra has been answered twice in a row
C13_Witness ==
    /\ res.op = "status"
    /\ res.tag = "ok"
    /\ res.again
    /\ res.req.status = "compra"
    /\ res.id \in DOMAIN orders
    /\ orders[res.id].status = "compra"
    /\ \A i \in DOMAIN orders[res.id].items : orders[res.id].items[i].status = "compra"

---------------------------------------------------------------------------
(* C14 *)

\* the request of the step passes the role check and the schema, and names a
\* product that is missing from the catalog or inactive
NamesUnavailableProduct ==
    /\ Served("create")
    /\ MayCreate(res'.req.actor)
    /\ Len(res'.req.items) \in 1..20
    /\ \A k \in DOMAIN res'.req.items : res'.req.items[k].quantity > 0
    /\ \E k \in DOMAIN res'.req.items :
          \/ res'.req.items[k].product \notin DOMAIN Catalog
          \/ ~Catalog[res'.req.items[k].product]

\* C14: a CreateOrder that names a missing or inactive product fails with
\* InvalidReference before the duplicate scan: no order is created, no
\* quantity changes and no notification is sent.
C14_InvalidReference ==
    [][NamesUnavailableProduct =>
          /\ res'.tag = "InvalidReference"
          /\ orders' = orders
          /\ dispatch'.outcome = "none"]_vars

\* a request naming p2 and the inactive p3 has been refused although a
\* recent open order of the customer holds a line for p2
C14_Witness ==
    /\ res.op = "create"
    /\ res.tag = "InvalidReference"
    /\ \E k \in DOMAIN res.req.items : res.req.items[k].product = "p3"
    /\ \E o \in DOMAIN orders :
          /\ orders[o].customer = res.req.customer
          /\ IsOpen(orders[o].status)
          /\ AgeHours(o) < 24
          /\ \E i \in DOMAIN orders[o].items, k \in DOMAIN res.req.items :
                /\ orders[o].items[i].product = res.req.items[k].product
                /\ IsOpen(orders[o].items[i].status)

---------------------------------------------------------------------------
(* C15 *)

Notifies(c) == calls[c].pc = "notify" /\ calls'[c].pc # "notify"

\* C15: the order is persisted before the notification dispatch is
\* attempted, and whatever the dispatch does the caller receives the
\* created result and the order stays persisted.
C15_CreatedWhateverDispatch ==
    [][/\ \A c \in Connections :
             Notifies(c) =>
                /\ calls[c].id \in DOMAIN orders
                /\ orders[calls[c].id].customer = calls[c].req.customer
                /\ orders' = orders
                /\ dispatch'.order = calls[c].id
                /\ dispatch'.outcome \in {"sent", "partial", "configThrew", "dispatcherThrew"}
                /\ res'.tag = "created"
                /\ res'.id = calls[c].id
       /\ (dispatch' # dispatch /\ dispatch'.outcome # "none") =>
             \E c \in Connections : Notifies(c)]_vars

\* the configuration lookup threw, and the order is stored and answered as
\* created
C15_Witness ==
    /\ dispatch.outcome = "configThrew"
    /\ dispatch.order \in DOMAIN orders
    /\ res.op = "create"
    /\ res.tag = "created"
    /\ res.id = dispatch.order

---------------------------------------------------------------------------
(* C16 *)

AllowedRoles(op) ==
    CASE op = "create" -> {"vendedor", "admin"}
      [] op \in {"status", "deliver", "nullify", "patch"} -> {"facturador", "admin"}
      [] op \in {"put", "delete"} -> {"admin"}

\* C16: a caller whose role is not in the allowed set of the operation is
\* answered Forbidden and no order changes.
C16_RoleCheckFirst ==
    [][(/\ now' = now
        /\ served' = served + 1
        /\ Role(res'.req.actor) \notin AllowedRoles(res'.op)) =>
          /\ res'.tag = "Forbidden"
          /\ orders' = orders]_vars

\* a vendedor has asked for a status change while an order is stored, and has
\* been refused
C16_Witness ==
    /\ res.op = "status"
    /\ res.tag = "Forbidden"
    /\ Role(res.req.actor) = "vendedor"
    /\ Len(orders) >= 1
    /\ orders[1].status = "pendiente"

---------------------------------------------------------------------------
(* C17 *)

\* C17: when ChangeStatus, MarkDelivered, Nullify or PartialUpdate ends in
\* NotFound, InvalidStatus, InvalidTransition, TooEarly or Forbidden, the
\* order repository is as it was before the call.
C17_FailureWritesNothing ==
    [][(/\ now' = now
        /\ served' = served + 1
        /\ res'.op \in {"status", "deliver", "nullify", "patch"}
        /\ res'.tag \in {"NotFound", "InvalidStatus", "InvalidTransition",
                         "TooEarly", "Forbidden"}) =>
          orders' = orders]_vars

\* MarkDelivered has been refused on a pending order, which has neither a
\* delivery date nor an updater
C17_Witness ==
    /\ res.op = "deliver"
    /\ res.tag = "InvalidTransition"
    /\ res.id \in DOMAIN orders
    /\ orders[res.id].status = "pendiente"
    /\ orders[res.id].delivered_at = <<>>
    /\ orders[res.id].updatedBy = NoUser

---------------------------------------------------------------------------
(* C18 *)

\* C18: in every reachable state each persisted order has between 1 and 20
\* items.
C18_ItemCount ==
    \A o \in DOMAIN orders :
        Len(orders[o].items) >= 1 /\ Len(orders[o].items) <= 20

---------------------------------------------------------------------------
(* C19 *)

---------------------------------------------------------------------------
(* C20 *)

\* C20: after a PartialUpdate that includes a valid status s the order status
\* is s, every item of the resulting order has status s, and delivered_at is
\* cleared when s is pendiente or compra, whichever other fields are sent.
C20_PatchAppliesStatusRule ==
    [][(/\ Served("patch")
        /\ res'.tag = "ok"
        /\ res'.req.status \in {"pendiente", "compra", "facturado", "nulo"}) =>
          LET id == res'.id
              s  == res'.req.status
          IN  /\ orders'[id].status = s
              /\ \A i \in DOMAIN orders'[id].items : orders'[id].items[i].status = s
              /\ IsOpen(s) => orders'[id].delivered_at = <<>>]_vars

---------------------------------------------------------------------------
(* C25 *)

RequestStep == now' = now /\ served' = served + 1

\* C25: a notification is dispatched only by a CreateOrder that creates an
\* order, once for that order and with the order already in the repository;
\* a merge, ChangeStatus, MarkDelivered, Nullify and PartialUpdate dispatch
\* nothing.
C25_DispatchOnlyOnCreation ==
    [][RequestStep =>
          /\ dispatch'.outcome # "none" =>
                /\ res'.op = "create"
                /\ res'.tag = "created"
                /\ Created
                /\ dispatch'.order = Len(orders')
                /\ res'.id = dispatch'.order
          /\ Created => (dispatch'.outcome # "none" /\ dispatch'.order = Len(orders'))
          /\ (\/ res'.tag = "merged"
              \/ res'.op \in {"status", "deliver", "nullify", "patch"}) =>
                dispatch'.outcome = "none"]_vars

\* a request has ended as a merge and nothing was dispatched
C25_Witness ==
    /\ res.op = "create"
    /\ res.tag = "merged"
    /\ res.merged >= 1
    /\ Len(orders) >= 1
    /\ dispatch.outcome = "none"

---------------------------------------------------------------------------
(* C26 *)

RECURSIVE SumQuantity(_)
SumQuantity(lines) ==
    IF lines = <<>> THEN 0 ELSE Head(lines).quantity + SumQuantity(Tail(lines))

RECURSIVE TotalQuantity(_)
TotalQuantity(ords) ==
    IF ords = <<>> THEN 0 ELSE SumQuantity(Head(ords).items) + TotalQuantity(Tail(ords))

\* orders that hold a candidate line for product p of the request of the step
CandidateOrders(p) ==
    {o \in DOMAIN orders :
        \E l \in DOMAIN orders[o].items : IsCandidate(<<o, l>>, res'.req.customer, p)}

RequestProducts == {res'.req.items[k].product : k \in DOMAIN res'.req.items}

\* the sum of weight[product] * quantity over the items of a request
RECURSIVE Incoming(_, _)
Incoming(items, weight) ==
    IF items = <<>> THEN 0
    ELSE weight[Head(items).product] * Head(items).quantity
            + Incoming(Tail(items), weight)

HasDuplicate == [p \in RequestProducts |-> IF CandidateOrders(p) # {} THEN 1 ELSE 0]

DuplicateCount == [p \in RequestProducts |-> Cardinality(CandidateOrders(p))]

InOrder(o) == [p \in RequestProducts |-> IF o \in CandidateOrders(p) THEN 1 ELSE 0]

Merges == Served("create") /\ res'.tag = "merged"

\* C26 as stated: in a merge the total increase of line quantities equals the
\* sum of the quantities of the incoming items that had a duplicate.
C26_MergeConserves ==
    [][Merges =>
          TotalQuantity(orders') - TotalQuantity(orders)
             = Incoming(res'.req.items, HasDuplicate)]_vars

\* C26 amended: in a merge each incoming item is added to one line in every
\* recent order that holds a duplicate of it, so each such order grows by the
\* quantities of the items it holds a duplicate of, and the total increase is
\* the sum over the incoming items of quantity times the number of orders
\* holding a duplicate.
C26_MergeAddsPerCandidate ==
    [][Merges =>
          /\ \A o \in DOMAIN orders :
                SumQuantity(orders'[o].items) - SumQuantity(orders[o].items)
                   = Incoming(res'.req.items, InOrder(o))
          /\ TotalQuantity(orders') - TotalQuantity(orders)
                = Incoming(res'.req.items, DuplicateCount)]_vars

\* a one-item request has been merged into two orders of the customer, each
\* of which holds the product
C26_Witness ==
    /\ res.op = "create"
    /\ res.tag = "merged"
    /\ res.merged = 2
    /\ Len(res.req.items) = 1
    /\ Len(orders) = 2
    /\ \A o \in DOMAIN orders :
          /\ orders[o].customer = res.req.customer
          /\ \E l \in DOMAIN orders[o].items :
                /\ orders[o].items[l].product = res.req.items[1].product
                /\ orders[o].items[l].quantity >= 1 + res.req.items[1].quantity

---------------------------------------------------------------------------
(* C29 *)

\* C29: ChangeStatus by a facturador or admin on an existing order succeeds
\* for each of the four statuses whatever the status and age of the order.
C29_AnyTransition ==
    [][(/\ Served("status")
        /\ MayBill(res'.req.actor)
        /\ res'.req.status \in {"pendiente", "compra", "facturado", "nulo"}
        /\ res'.id \in DOMAIN orders) =>
          /\ res'.tag = "ok"
          /\ res'.before = orders[res'.id].status
          /\ orders'[res'.id].status = res'.req.status]_vars

\* an order nullified seven days after its creation has been moved back to
\* pendiente
C29_Witness ==
    /\ res.op = "status"
    /\ res.tag = "ok"
    /\ res.before = "nulo"
    /\ res.req.status = "pendiente"
    /\ orders[res.id].status = "pendiente"
    /\ AgeHours(res.id) >= 168

---------------------------------------------------------------------------
(* C22 *)

SharesProduct(o1, o2) ==
    \E i \in DOMAIN orders[o1].items, j \in DOMAIN orders[o2].items :
        orders[o1].items[i].product = orders[o2].items[j].product

\* C22: under any interleaving of CreateOrder calls the outcome is that of
\* running them one after the other, so two calls for the same customer and
\* product never both create an order: no two orders of one customer hold
\* the same product.
C22_NeverBothCreate ==
    \A o1, o2 \in DOMAIN orders :
        (o1 # o2 /\ orders[o1].customer = orders[o2].customer)
            => ~SharesProduct(o1, o2)

---------------------------------------------------------------------------
(* C23 *)

\* the duplicate the merge loop of connection c is at
Dup(c) == calls[c].dups[calls[c].k]

Stored(ords, c) == ords[Dup(c).orderId].items[Dup(c).itemId].quantity

\* the save of connection c goes through in this step
Saves(c) ==
    /\ calls[c].pc = "write"
    /\ \/ calls'[c].pc = "find"
       \/ calls'[c].pc = "idle" /\ res'.tag = "merged"

\* the save of connection c rejects in this step
SaveFails(c) ==
    /\ calls[c].pc = "write"
    /\ calls'[c].pc = "idle"
    /\ res'.tag # "merged"

\* C23: when the j-th write of a merge fails, the caller gets an error and
\* the j-1 additions already written stay as they are; a retry scans the
\* repository as it now is, reads each line again and adds the incoming
\* quantity to what it reads, the earlier addition included.
C23_PartialMergeStays ==
    [][\A c \in Connections :
          /\ SaveFails(c) =>
                /\ res'.op = "create"
                /\ res'.tag = "ServerError"
                /\ res'.req = calls[c].req
                /\ res'.merged = calls[c].k - 1
                /\ orders' = orders
          /\ (calls[c].pc = "idle" /\ calls'[c].pc = "find") =>
                /\ calls'[c].k = 1
                /\ calls'[c].dups =
                      Duplicates(orders, calls'[c].req.customer, calls'[c].req.items, now)
          /\ (calls[c].pc = "find" /\ calls'[c].pc = "write") =>
                calls'[c].qty = Stored(orders, c) + Dup(c).newQty
          /\ Saves(c) => Stored(orders', c) = calls[c].qty]_vars

\* a merge of two items failed at its second write; the retry of the same
\* request has added the first item again, and the line holds 1 + 1 + 1
C23_Witness ==
    /\ res.op = "create"
    /\ res.tag = "ServerError"
    /\ res.merged = 1
    /\ Len(res.req.items) = 2
    /\ \E c \in Connections :
          /\ calls[c].pc = "find"
          /\ calls[c].k = 2
          /\ calls[c].req = res.req
    /\ Len(orders) = 1
    /\ Len(orders[1].items) = 2
    /\ orders[1].items[1].quantity = 3
    /\ orders[1].items[2].quantity = 1

---------------------------------------------------------------------------
(* C27 *)

\* C27: no merge is lost: every merge write raises the quantity the line
\* holds at that moment by the incoming quantity, so two calls that merge a
\* and b into a line of quantity q leave q + a + b.
C27_NoMergeLost ==
    [][\A c \in Connections :
          Saves(c) => Stored(orders', c) = Stored(orders, c) + Dup(c).newQty]_vars

---------------------------------------------------------------------------
(* C28 *)

\* C28: at the moment of a merge write the order written to has status
\* pendiente or compra.
C28_MergeOnlyIntoOpen ==
    [][\A c \in Connections :
          Saves(c) => IsOpen(orders[Dup(c).orderId].status)]_vars

---------------------------------------------------------------------------
(* C21: the notification dispatcher attempts exactly one send per enabled   *)
(* recipient and every attempt runs to completion whatever the others do:  *)
(* the dispatch ends with a summary in which sent is the number of         *)
(* successful sends, failed the number of failed ones, and sent + failed   *)
(* the number of recipients attempted.                                      *)

\* the step in which connection c gets the summary of its dispatch
Dispatches(c) == Acts(c, "notify") /\ tasks'[c] = NoTask

Accepted(recipients, rejecting) ==
    Cardinality({i \in DOMAIN recipients : recipients[i] \notin rejecting})

C21_OneSendPerRecipient ==
    [][\A c \in Connections :
          Dispatches(c) =>
              /\ reply'.summary.success
              /\ reply'.summary.attempted = reply'.recipients
              /\ reply'.summary.sent = Accepted(reply'.recipients, reply'.rejecting)
              /\ reply'.summary.sent + reply'.summary.failed
                     = Len(reply'.summary.attempted)]_vars

---------------------------------------------------------------------------
(* C24: there is one notification configuration record: after any          *)
(* interleaving of the operations that call getOrCreateConfig, at most one *)
(* NotificationConfig record exists and every caller reads and updates     *)
(* that same record.                                                        *)

C24_SingletonConfig ==
    /\ Len(configs) <= 1
    /\ \A c \in Connections : tasks[c].pc = "act" => tasks[c].id = 1

---------------------------------------------------------------------------
(* C30: the emergency-admin operation creates an admin only when the       *)
(* system has no admin, and after any interleaving of emergency-admin      *)
(* calls started with no admin exactly one admin has been created by it.   *)

C30_AdminOnlyWhenNone ==
    [][/\ AdminCount(users') > AdminCount(users) => AdminCount(users) = 0
       /\ AdminCount(users') <= 1]_vars

====
